---- MODULE Spec2Model ----
(***************************************************************************)
(* Model of pennylane/transforms/decorators.py: the tape materializer      *)
(* make_tape, the NonQueuingTape mixin, single_tape_transform,             *)
(* qfunc_transform and qnode_transform, over the queuing-context stack.    *)
(* Model of pennylane/transforms/classical_jacobian.py: the adapter        *)
(* factory _make_jacobian_fn, classical_jacobian and expansion_jacobian.   *)
(*                                                                         *)
(* Objects are integers: a positive number is an operation or measurement  *)
(* instance, a negative number -t is the tape t queued as an object.       *)
(***************************************************************************)
EXTENDS Integers, Sequences, FiniteSets, TLC

\* ----------------------------------------------------------------- bounds
MaxTapes == 3
MaxOps == 2

Tapes == 1..MaxTapes
Ops == 1..MaxOps
TapeClasses == {"QuantumTape", "JacobianTape"}
ObjKinds == {"op", "meas"}

VARIABLES
    active_contexts,  \* QueuingContext._active_contexts: sequence of tapes, top last
    saved,            \* stacks put aside by the running stop_recording() scopes
    queue,            \* tape -> its AnnotatedQueue._queue keys, in insertion order
    tcls,             \* tape -> concrete class ("none": not constructed yet)
    nonq,             \* tape -> TRUE while its class is fused with NonQueuingTape
    okind,            \* operation -> "op" | "meas" ("none": not instantiated yet)
    frames,           \* the running calls of this module's wrappers, innermost last
    err,              \* the exception that is propagating ("none": no exception)
    last,             \* the call that completed in the last step (NoLast otherwise)
    tape_fn,          \* the registered qfunc transform (qfunc_transform's result)
    decorated,        \* the decorated quantum function (internal_wrapper)
    qnode_transform_fn,  \* the transform registered with qnode_transform
    wrapped,          \* the decorated circuit (qnode_transform's internal_wrapper)
    call,             \* the running call of the decorated circuit
    ncalls,           \* the calls of the decorated circuit that have ended
    extractor,        \* the classical-Jacobian extractor that was built
    jtape,            \* the tape the extractor works on (the circuit's qtape)
    jres,             \* the outcome of the extractor's most recent call
    jcalls,           \* the calls of the extractor that have ended
    assigned,         \* the interface assigned to an entity after an extractor
                      \* or wrapper was made for it ("none": not assigned)
    circuit           \* a circuit entity (QNode) that user code calls directly

qvars == <<active_contexts, saved, queue, tcls, nonq, okind, frames, err, last,
           tape_fn, decorated>>

nvars == <<qnode_transform_fn, wrapped, call, ncalls>>

evars == <<assigned, circuit>>

jvars == <<extractor, jtape, jres, jcalls, evars>>

vars == <<qvars, nvars, jvars>>

\* ---------------------------------------------------------------- helpers
Top(s) == IF Len(s) = 0 THEN 0 ELSE s[Len(s)]

Pop(s) == SubSeq(s, 1, Len(s) - 1)

TopSeq(s) == IF Len(s) = 0 THEN <<>> ELSE s[Len(s)]

Range(s) == {s[i] : i \in 1..Len(s)}

TapeObj(t) == 0 - t

FilterOut(s, x) == SelectSeq(s, LAMBDA y : y # x)

\* the queuing state the context managers act on
Ctx == [st |-> active_contexts, sv |-> saved, qs |-> queue]

SetCtx(c) ==
    /\ active_contexts' = c.st
    /\ saved' = c.sv
    /\ queue' = c.qs

HasFreshTape == \E t \in Tapes : tcls[t] = "none"

FreshTape == CHOOSE t \in Tapes : tcls[t] = "none" /\ \A u \in 1..(t - 1) : tcls[u] # "none"

HasFreshOp == \E o \in Ops : okind[o] = "none"

FreshOp == CHOOSE o \in Ops : okind[o] = "none" /\ \A u \in 1..(o - 1) : okind[u] # "none"

\* ------------------------------------------------- queuing context protocol
\* AnnotatedQueue._append: an ordered mapping keyed by the object, so an
\* object that is already queued keeps its place
AnnotatedQueue_append(q, obj) == IF obj \in Range(q) THEN q ELSE Append(q, obj)

\* QueuingContext.append: to the active context, if there is one
QueuingContext_append(c, obj) ==
    IF Len(c.st) = 0 THEN c
    ELSE [c EXCEPT !.qs[Top(c.st)] = AnnotatedQueue_append(@, obj)]

\* QueuingContext.remove: from the active context, if there is one
QueuingContext_remove(c, obj) ==
    IF Len(c.st) = 0 THEN c
    ELSE [c EXCEPT !.qs[Top(c.st)] = FilterOut(@, obj)]

\* get_active_tape(): the active context, 0 for None
get_active_tape(c) == Top(c.st)

\* tape.stop_recording(): entering puts the whole context stack aside
stop_recording_enter(c) == [c EXCEPT !.sv = Append(@, c.st), !.st = <<>>]

\* tape.stop_recording(): leaving puts the stack back
stop_recording_exit(c) == [c EXCEPT !.st = TopSeq(c.sv), !.sv = Pop(@)]

\* QuantumTape.__enter__: the tape queues itself to the active context, then
\* becomes the active context
tape_enter(c, t) == [QueuingContext_append(c, TapeObj(t)) EXCEPT !.st = Append(@, t)]

\* QueuingContext.__exit__: the context is popped
context_exit(c) == [c EXCEPT !.st = Pop(@)]

\* tape.operations and tape.measurements, as QuantumTape._process_queue sorts them
operations(q) == SelectSeq(q, LAMBDA o : o > 0 /\ okind[o] = "op")

measurements(q) == SelectSeq(q, LAMBDA o : o > 0 /\ okind[o] = "meas")

\* ------------------------------------------------------------ NonQueuingTape
\* mutant: nothing is forwarded to the context that is active at the exit
ForwardQueue_none(c, q) == c

\* mutant: the objects are forwarded last to first
ForwardQueue_reversed(c, q) ==
    IF Len(c.st) = 0 THEN c
    ELSE LET old == c.qs[Top(c.st)]
             rev == [i \in 1..Len(q) |-> q[Len(q) + 1 - i]]
         IN  [c EXCEPT !.qs[Top(c.st)] =
                    old \o SelectSeq(rev, LAMBDA o : o \notin Range(old))]

RECURSIVE ForwardQueue(_, _)
\* decorators.py 114-115: every object of the tape's queue is appended to the
\* context that is active now
ForwardQueue(c, q) ==
    IF Len(q) = 0 THEN c
    ELSE ForwardQueue(QueuingContext_append(c, Head(q)), Tail(q))

\* mutant: the tape does not remove itself from the active context
NonQueuingTape_process_queue_keep(c, t) == ForwardQueue(c, c.qs[t])

\* NonQueuingTape._process_queue, run by the tape's __exit__ after the pop
NonQueuingTape_process_queue(c, t) ==
    QueuingContext_remove(ForwardQueue(c, c.qs[t]), TapeObj(t))

\* leaving the scope of tape t: popped, then its queue is processed
tape_exit(c, t, isNonQueuing) ==
    IF isNonQueuing THEN NonQueuingTape_process_queue(context_exit(c), t)
    ELSE context_exit(c)

\* --------------------------------------------------------------- make_tape
\* mutant: the new tape queues itself to the tape that was recording
make_tape_enter_queued(c, t) ==
    IF get_active_tape(c) # 0
    THEN [tape_enter(stop_recording_enter(c), t)
            EXCEPT !.qs = QueuingContext_append(c, TapeObj(t)).qs]
    ELSE tape_enter(c, t)

\* decorators.py 94-100: the context managers wrapper() enters before fn runs
make_tape_enter(c, t) ==
    IF get_active_tape(c) # 0
    THEN tape_enter(stop_recording_enter(c), t)
    ELSE tape_enter(c, t)

\* mutant: stop_recording() is not left, the outer tape stays switched off
make_tape_exit_unscoped(c, t, isNonQueuing, hadActive) ==
    tape_exit(c, t, isNonQueuing)

\* decorators.py 97-102: the context managers are left, innermost first, on
\* return and on error alike
make_tape_exit(c, t, isNonQueuing, hadActive) ==
    IF hadActive
    THEN stop_recording_exit(tape_exit(c, t, isNonQueuing))
    ELSE tape_exit(c, t, isNonQueuing)

\* decorators.py 97, 100: the class of the tape wrapper() constructs
make_tape_class(c) ==
    IF get_active_tape(c) # 0 THEN tcls[get_active_tape(c)] ELSE "QuantumTape"

\* ---------------------------------------------------- single_tape_transform
\* mutant: the new tape is queued but never becomes the active context
transform_enter_inactive(c, t) == QueuingContext_append(c, TapeObj(t))

\* mutant: the returned tape keeps the fused class
reclass_fused(cls, returned) == [cls |-> cls, nonq |-> TRUE]

\* decorators.py 189, 197: the new tape is of the class that fuses
\* NonQueuingTape with the input tape's class, and a tape that is returned is
\* given the input tape's class
reclass(cls, returned) == [cls |-> cls, nonq |-> ~returned]

\* decorators.py 189-193: a tape of the fused class is entered
transform_enter(c, t) == tape_enter(c, t)

\* mutant: the tape's queue is processed but the tape stays the active context
transform_exit_unpopped(c, t) ==
    [NonQueuingTape_process_queue(context_exit(c), t) EXCEPT !.st = c.st]

\* decorators.py 193-194: the with block is left, on return and on error alike
transform_exit(c, t) == tape_exit(c, t, TRUE)

\* Operation.__init__ / Operation.queue(): the object is appended to the active
\* context
Operation_queue(c, o) == QueuingContext_append(c, o)

\* ------------------------------------------------------------------- frames
NoLast ==
    [kind |-> "none", tape |-> 0, inp |-> 0, outer |-> 0, targs |-> <<>>,
     log |-> <<>>, direct |-> <<>>, bodies |-> <<>>, applied |-> <<>>,
     ret |-> <<>>, raisedIn |-> "none",
     raised |-> "none", pre |-> [t \in Tapes |-> <<>>], preStack |-> <<>>,
     preSaved |-> <<>>]

NewFrame(kind, tape, inp, targs, pc) ==
    [kind |-> kind, tape |-> tape, inp |-> inp, targs |-> targs, pc |-> pc,
     pos |-> 0, log |-> <<>>, direct |-> <<>>, bodies |-> <<>>, applied |-> <<>>,
     outer |-> get_active_tape(Ctx),
     pre |-> queue, preStack |-> active_contexts, preSaved |-> saved]

TopFrame == frames[Len(frames)]

Running(kind) == Len(frames) > 0 /\ TopFrame.kind = kind /\ err = "none"

Unwinding(kind) == Len(frames) > 0 /\ TopFrame.kind = kind /\ err # "none"

\* user code runs once the module's decorators have been applied
AtUser == Len(frames) = 0 /\ err = "none" /\ decorated.bound

AtSetup == Len(frames) = 0 /\ err = "none" /\ ~decorated.bound

\* the record of the call that completes, as its caller sees it
Completed(f, ret, raisedIn, raised) ==
    [kind |-> f.kind, tape |-> f.tape, inp |-> f.inp, outer |-> f.outer,
     targs |-> f.targs, log |-> f.log, direct |-> f.direct, bodies |-> f.bodies,
     applied |-> f.applied, ret |-> ret,
     raisedIn |-> raisedIn, raised |-> raised, pre |-> f.pre,
     preStack |-> f.preStack, preSaved |-> f.preSaved]

\* the running fn whose tape is the active context sees objs arrive in it
LogArrivals(fs, t, objs) ==
    [i \in DOMAIN fs |->
        IF fs[i].kind = "make_tape" /\ fs[i].tape = t
        THEN [fs[i] EXCEPT !.log = @ \o objs]
        ELSE fs[i]]

\* the calling frame notes what the body of the transform it ran has queued
NoteBody(fs, log) ==
    IF Len(fs) > 0 /\ fs[Len(fs)].kind \in {"qfunc", "make_tape"}
    THEN [fs EXCEPT ![Len(fs)].bodies = Append(@, log)]
    ELSE fs

\* the caller's frame takes the returned tape and moves on
Deliver(fs, t) ==
    IF Len(fs) > 0 /\ fs[Len(fs)].kind = "qfunc"
    THEN [fs EXCEPT ![Len(fs)].tape = t,
                    ![Len(fs)].pc = IF @ = "making" THEN "transform" ELSE "ret"]
    ELSE fs

\* mutant: the wrappers raise an error of their own in place of the one they met
propagate_replaced(e) == "TransformError"

\* an error leaves a wrapper of this module as it came: none has an except clause
propagate(e) == e

\* -------------------------------------------------------------------- Init
InitQueuing ==
    /\ active_contexts = <<>>
    /\ saved = <<>>
    /\ queue = [t \in Tapes |-> <<>>]
    /\ tcls = [t \in Tapes |-> "none"]
    /\ nonq = [t \in Tapes |-> FALSE]
    /\ okind = [o \in Ops |-> "none"]
    /\ frames = <<>>
    /\ err = "none"
    /\ last = NoLast
    /\ tape_fn = [form |-> "unregistered", nparams |-> 0, callable |-> TRUE]
    /\ decorated = [bound |-> FALSE, targs |-> <<>>, callable |-> TRUE]

\* ---------------------------------------------------- the caller's own code
\* with QuantumTape() as T: (or JacobianTape) in user code
UserTapeEnter(cls) ==
    /\ AtUser
    /\ HasFreshTape
    /\ Len(active_contexts) = 0
    /\ SetCtx(tape_enter(Ctx, FreshTape))
    /\ tcls' = [tcls EXCEPT ![FreshTape] = cls]
    /\ last' = NoLast
    /\ UNCHANGED <<nonq, okind, frames, err, tape_fn, decorated, nvars, jvars>>

\* the end of the user's with block
UserTapeExit ==
    /\ AtUser
    /\ Len(active_contexts) > 0
    /\ SetCtx(tape_exit(Ctx, Top(active_contexts), FALSE))
    /\ last' = NoLast
    /\ UNCHANGED <<tcls, nonq, okind, frames, err, tape_fn, decorated, nvars, jvars>>

\* user code instantiates an operation inside its with block
UserInstantiate ==
    /\ AtUser
    /\ Len(active_contexts) > 0
    /\ HasFreshOp
    /\ okind' = [okind EXCEPT ![FreshOp] = "op"]
    /\ SetCtx(Operation_queue(Ctx, FreshOp))
    /\ last' = NoLast
    /\ UNCHANGED <<tcls, nonq, frames, err, tape_fn, decorated, nvars, jvars>>

\* the caller catches the error that reached it; a run is followed up to its
\* first error
Catch ==
    /\ Len(frames) = 0
    /\ err \notin {"none", "caught"}
    /\ err' = "caught"
    /\ last' = NoLast
    /\ UNCHANGED <<active_contexts, saved, queue, tcls, nonq, okind, frames,
                   tape_fn, decorated, nvars, jvars>>

\* ------------------------------------------------------- make_tape(fn)(...)
\* decorators.py 93-98/100: wrapper() up to the call of fn
MakeTapeStart(base) ==
    /\ HasFreshTape
    /\ SetCtx(make_tape_enter(Ctx, FreshTape))
    /\ tcls' = [tcls EXCEPT ![FreshTape] = make_tape_class(Ctx)]
    /\ nonq' = [nonq EXCEPT ![FreshTape] =
                    get_active_tape(Ctx) # 0 /\ nonq[get_active_tape(Ctx)]]
    /\ frames' = Append(base, NewFrame("make_tape", FreshTape, 0, <<>>, "fn"))
    /\ last' = NoLast
    /\ UNCHANGED <<okind, err, tape_fn, decorated, nvars, jvars>>

MakeTapeCall ==
    /\ AtUser
    /\ MakeTapeStart(frames)

\* fn instantiates an operation or a measurement
FnInstantiate(k) ==
    /\ Running("make_tape")
    /\ HasFreshOp
    /\ okind' = [okind EXCEPT ![FreshOp] = k]
    /\ SetCtx(Operation_queue(Ctx, FreshOp))
    /\ frames' = [LogArrivals(frames, get_active_tape(Ctx), <<FreshOp>>)
                      EXCEPT ![Len(frames)].direct = Append(@, FreshOp)]
    /\ last' = NoLast
    /\ UNCHANGED <<tcls, nonq, err, tape_fn, decorated, nvars, jvars>>

\* decorators.py 97-102: the with block ends and wrapper() returns the tape, or
\* the error raised in fn leaves wrapper()
MakeTapeEnd(raisedIn) ==
    LET f == TopFrame
        c == make_tape_exit(Ctx, f.tape, nonq[f.tape], f.outer # 0)
        raised == IF raisedIn = "none" THEN "none" ELSE propagate(raisedIn)
    IN  /\ SetCtx(c)
        /\ frames' = IF raised = "none" THEN Deliver(Pop(frames), f.tape)
                     ELSE Pop(frames)
        /\ err' = raised
        /\ last' = Completed(f, <<>>, raisedIn, raised)
        /\ UNCHANGED <<tcls, nonq, okind, tape_fn, decorated, nvars, jvars>>

MakeTapeReturn ==
    /\ Running("make_tape")
    /\ MakeTapeEnd("none")

\* fn raises
MakeTapeRaise ==
    /\ Running("make_tape")
    /\ MakeTapeEnd("fn_error")

\* an error raised by a call fn made passes through fn
MakeTapeUnwind ==
    /\ Unwinding("make_tape")
    /\ MakeTapeEnd(err)

\* ------------------------------------------- single_tape_transform.__call__
\* what the body iterates over: tape.operations + tape.measurements
items(inp) == operations(queue[inp]) \o measurements(queue[inp])

\* decorators.py 189-193: __call__ up to the call of transform_fn
TransformStart(base, inp, targs) ==
    /\ HasFreshTape
    /\ SetCtx(transform_enter(Ctx, FreshTape))
    /\ tcls' = [tcls EXCEPT ![FreshTape] = reclass(tcls[inp], FALSE).cls]
    /\ nonq' = [nonq EXCEPT ![FreshTape] = reclass(tcls[inp], FALSE).nonq]
    /\ frames' = Append(base, NewFrame("transform", FreshTape, inp, targs, "body"))
    /\ last' = NoLast
    /\ UNCHANGED <<okind, err, tape_fn, decorated, nvars, jvars>>

\* user code applies a transform to a tape that is not recording
TransformCall(inp) ==
    /\ AtUser
    /\ tcls[inp] # "none"
    /\ ~nonq[inp]
    /\ inp \notin Range(active_contexts)
    /\ TransformStart(frames, inp, <<>>)

\* the body re-queues the operation it looks at: op.queue()
BodyRequeue ==
    /\ Running("transform")
    /\ TopFrame.pos < Len(items(TopFrame.inp))
    /\ LET o == items(TopFrame.inp)[TopFrame.pos + 1]
       IN  /\ SetCtx(Operation_queue(Ctx, o))
           /\ frames' = [frames EXCEPT ![Len(frames)].pos = @ + 1,
                                       ![Len(frames)].log = Append(@, o)]
    /\ last' = NoLast
    /\ UNCHANGED <<tcls, nonq, okind, err, tape_fn, decorated, nvars, jvars>>

\* the body instantiates a replacement operation
BodyInstantiate ==
    /\ Running("transform")
    /\ HasFreshOp
    /\ okind' = [okind EXCEPT ![FreshOp] = "op"]
    /\ SetCtx(Operation_queue(Ctx, FreshOp))
    /\ frames' = [frames EXCEPT ![Len(frames)].log = Append(@, FreshOp)]
    /\ last' = NoLast
    /\ UNCHANGED <<tcls, nonq, err, tape_fn, decorated, nvars, jvars>>

\* the body moves on to the next operation without re-queuing this one
BodySkip ==
    /\ Running("transform")
    /\ TopFrame.pos < Len(items(TopFrame.inp))
    /\ frames' = [frames EXCEPT ![Len(frames)].pos = @ + 1]
    /\ last' = NoLast
    /\ UNCHANGED <<active_contexts, saved, queue, tcls, nonq, okind, err,
                   tape_fn, decorated, nvars, jvars>>

\* decorators.py 193-198: the with block ends; on return the tape's class is
\* set back to the input tape's class
TransformEnd(raisedIn) ==
    LET f == TopFrame
        c == transform_exit(Ctx, f.tape)
        raised == IF raisedIn = "none" THEN "none" ELSE propagate(raisedIn)
        rest == IF raised = "none" THEN Deliver(Pop(frames), f.tape)
                ELSE Pop(frames)
    IN  /\ SetCtx(c)
        /\ frames' = LogArrivals(NoteBody(rest, f.log), get_active_tape(c),
                                  queue[f.tape])
        /\ tcls' = [tcls EXCEPT ![f.tape] = reclass(tcls[f.inp], raised = "none").cls]
        /\ nonq' = [nonq EXCEPT ![f.tape] = reclass(tcls[f.inp], raised = "none").nonq]
        /\ err' = raised
        /\ last' = Completed(f, <<>>, raisedIn, raised)
        /\ UNCHANGED <<okind, tape_fn, decorated, nvars, jvars>>

TransformReturn ==
    /\ Running("transform")
    /\ TopFrame.pos = Len(items(TopFrame.inp))
    /\ TransformEnd("none")

\* the body raises
TransformRaise ==
    /\ Running("transform")
    /\ TransformEnd("body_error")

\* ---------------------------------------------------------- qfunc_transform
ParamCounts == {0, 1, 2}

TArgVals == {7}

\* mutant: every function without extra parameters is taken as a decorator
qfunc_transform_form_lenient(n) == IF n > 1 THEN "factory" ELSE "decorator"

\* decorators.py 301, 323: the branch the parameter count selects; with no
\* parameter neither branch defines make_qfunc_transform and line 342 fails
qfunc_transform_form(n) ==
    IF n > 1 THEN "factory" ELSE IF n = 1 THEN "decorator" ELSE "error"

\* mutant: the extra arguments are dropped
internal_wrapper_targs_dropped(form, targs) == <<>>

\* decorators.py 316, 337: the extra arguments internal_wrapper passes on
internal_wrapper_targs(form, targs) == IF form = "factory" THEN targs ELSE <<>>

\* the objects handed to a registrar or to a decorator: a function, an
\* instance of single_tape_transform, or "object" for what cannot be called
Objects == {"function", "single_tape_transform", "object"}

\* callable(obj)
callable(obj) == obj # "object"

\* mutant: the transform function is stored without a test
single_tape_transform_init_unchecked(transform_fn) == "none"

\* decorators.py 177-186: single_tape_transform.__init__
single_tape_transform_init(transform_fn) ==
    IF ~callable(transform_fn) THEN "ValueError" ELSE "none"

\* decorators.py 289-296: line 289 tests the class single_tape_transform, which
\* is callable; what is not a single_tape_transform is wrapped as one
qfunc_transform_wrap(tape_transform) ==
    IF ~callable("single_tape_transform") THEN "ValueError"
    ELSE IF tape_transform # "single_tape_transform"
    THEN single_tape_transform_init(tape_transform)
    ELSE "none"

\* decorators.py 289-343: qfunc_transform(tape_transform), at definition time.
\* A run registers with one registrar, qfunc_transform or qnode_transform.
QfuncTransformRegister(tape_transform, n) ==
    /\ AtSetup
    /\ tape_fn.form = "unregistered"
    /\ qnode_transform_fn.state = "unregistered"
    /\ extractor.mode = "none"
    /\ ~callable(tape_transform) => n = 0
    /\ LET e == qfunc_transform_wrap(tape_transform)
       IN IF e # "none"
          THEN /\ tape_fn' = [form |-> "invalid", nparams |-> 0,
                              callable |-> callable(tape_transform)]
               /\ err' = e
          ELSE /\ tape_fn' = [form |-> qfunc_transform_form(n), nparams |-> n,
                              callable |-> callable(tape_transform)]
               /\ err' = IF qfunc_transform_form(n) = "error"
                         THEN "UnboundLocalError" ELSE "none"
    /\ last' = NoLast
    /\ UNCHANGED <<active_contexts, saved, queue, tcls, nonq, okind, frames, decorated, nvars, jvars>>

\* decorators.py 304-321 / 326-340: the quantum function is decorated, through
\* the factory called with targs or directly
QfuncDecorate(targs, fn) ==
    /\ AtSetup
    /\ decorated.callable
    /\ tape_fn.form \in {"factory", "decorator"}
    /\ Len(targs) = tape_fn.nparams - 1
    /\ decorated' = [bound |-> callable(fn), targs |-> targs, callable |-> callable(fn)]
    /\ err' = IF callable(fn) THEN "none" ELSE "ValueError"
    /\ last' = NoLast
    /\ UNCHANGED <<active_contexts, saved, queue, tcls, nonq, okind, frames,
                   tape_fn, nvars, jvars>>

\* decorators.py 314-315 / 335-336: internal_wrapper is called, by user code or
\* by a quantum function that is being recorded, and materializes fn's tape
QfuncCall ==
    /\ AtUser \/ Running("make_tape")
    /\ decorated.bound
    /\ MakeTapeStart(Append(frames, NewFrame("qfunc", 0, 0, decorated.targs, "making")))

\* decorators.py 316 / 337: the tape transform is applied to the tape
InternalWrapperTransform ==
    /\ Running("qfunc")
    /\ TopFrame.pc = "transform"
    /\ LET passed == internal_wrapper_targs(tape_fn.form, TopFrame.targs)
       IN TransformStart([frames EXCEPT ![Len(frames)].pc = "transforming",
                                        ![Len(frames)].applied = Append(@, passed)],
                         TopFrame.tape, passed)

\* decorators.py 317 / 338: the output tape's measurements are returned
InternalWrapperReturn ==
    /\ Running("qfunc")
    /\ TopFrame.pc = "ret"
    /\ frames' = NoteBody(Pop(frames), TopFrame.bodies[1])
    /\ last' = Completed(TopFrame, measurements(queue[TopFrame.tape]), "none", "none")
    /\ UNCHANGED <<active_contexts, saved, queue, tcls, nonq, okind, err,
                   tape_fn, decorated, nvars, jvars>>

\* an error raised while the tape was built or transformed leaves internal_wrapper
InternalWrapperUnwind ==
    /\ Unwinding("qfunc")
    /\ frames' = Pop(frames)
    /\ err' = propagate(err)
    /\ last' = Completed(TopFrame, <<>>, err, propagate(err))
    /\ UNCHANGED <<active_contexts, saved, queue, tcls, nonq, okind,
                   tape_fn, decorated, nvars, jvars>>

\* ========================================================== qnode_transform
MaxOut == 2
MaxCalls == 2

ArgVals == {1, 2}

\* the return annotations a transform function can declare; "float" stands for
\* every annotation that decorators.py does not list
Annotations ==
    {"empty", "QuantumTape", "List[QuantumTape]", "Tuple[QuantumTape, None]",
     "Tuple[List[QuantumTape], None]", "Tuple[List[QuantumTape], Callable]", "float"}

\* decorators.py 23-28
AUTO_EXECUTE_NO_PROCESSING ==
    {"QuantumTape", "List[QuantumTape]", "Tuple[QuantumTape, None]",
     "Tuple[List[QuantumTape], None]"}

\* mutant: an unannotated transform is not post-processed
AUTO_EXECUTE_PROCESSING_annotated == {"Tuple[List[QuantumTape], Callable]"}

\* decorators.py 36-39
AUTO_EXECUTE_PROCESSING == {"empty", "Tuple[List[QuantumTape], Callable]"}

\* decorators.py 48
AUTO_EXECUTE == AUTO_EXECUTE_PROCESSING \cup AUTO_EXECUTE_NO_PROCESSING

\* decorators.py 456-462
auto_execute(stt, ann) == IF stt THEN TRUE ELSE ann \in AUTO_EXECUTE

\* decorators.py 456-463
post_process(stt, ann) ==
    IF stt THEN FALSE ELSE auto_execute(stt, ann) /\ ann \in AUTO_EXECUTE_PROCESSING

\* decorators.py 465, 508: the branch the parameter count selects; with no
\* parameter neither branch defines make_qnode_transform and line 537 fails
qnode_transform_form(n) ==
    IF n > 1 THEN "factory" ELSE IF n = 1 THEN "decorator" ELSE "error"

\* the shapes of value a transform function with this declaration returns: a
\* single_tape_transform returns a tape, an annotated function what it
\* declares, an unannotated one the documented pair (decorators.py 353-366)
ShapesOf(stt, ann) ==
    IF stt THEN {"tape"}
    ELSE CASE ann = "QuantumTape" -> {"tape"}
           [] ann = "List[QuantumTape]" -> {"list"}
           [] ann = "Tuple[QuantumTape, None]" -> {"tuple_tape_none"}
           [] ann = "Tuple[List[QuantumTape], None]" -> {"tuple_list_none"}
           [] ann = "Tuple[List[QuantumTape], Callable]" -> {"tuple_list_fn"}
           [] ann = "empty" -> {"tuple_list_fn"}
           [] OTHER -> {"other", "tuple_list_fn"}

\* the tapes a transform derives from the circuit's tape qtape
OutTapes(qtape, n) == [j \in 1..n |-> <<qtape, j>>]

\* the value the transform function returns
TransformValue(shape, qtape, n) ==
    CASE shape = "tape" -> [shape |-> shape, items |-> OutTapes(qtape, 1), fn |-> "None"]
      [] shape = "tuple_tape_none" ->
            [shape |-> shape, items |-> OutTapes(qtape, 1), fn |-> "None"]
      [] shape = "list" -> [shape |-> shape, items |-> OutTapes(qtape, n), fn |-> "None"]
      [] shape = "tuple_list_none" ->
            [shape |-> shape, items |-> OutTapes(qtape, n), fn |-> "None"]
      [] shape = "tuple_list_fn" ->
            [shape |-> shape, items |-> OutTapes(qtape, n), fn |-> "processing_fn"]
      [] OTHER -> [shape |-> "other", items |-> <<>>, fn |-> "None"]

\* how many tapes a value of this shape can hold
Counts(shape) ==
    IF shape \in {"list", "tuple_list_none", "tuple_list_fn"} THEN 0..MaxOut ELSE {1}

\* t.execute(device=qnode.device)
execute(t, device) == <<"result", t, device>>

\* mutant: without results the processing function is not called
apply_fn_default(fn, res) == IF fn = "identity" \/ res = <<>> THEN res ELSE <<fn, res>>

\* fn(res): the identity of decorators.py 524, or the transform's function
apply_fn(fn, res) == IF fn = "identity" THEN res ELSE <<fn, res>>

\* the outcome of one statement of internal_wrapper
Outcome(e, tapes, fn) == [err |-> e, tapes |-> tapes, fn |-> fn]

\* decorators.py 484-490: the value is normalized to a list of tapes; line 488
\* names Sequence, which the module does not import (decorators.py 16-20)
normalize(v) ==
    LET stripped == IF v.shape \in {"tuple_tape_none", "tuple_list_none"}
                    THEN [v EXCEPT !.shape = IF @ = "tuple_tape_none" THEN "tape"
                                             ELSE "list"]
                    ELSE v
    IN  Outcome("NameError", <<>>, "None")

\* decorators.py 495-496, 527-529: tapes, fn = value, then the tapes are
\* iterated over
unpack(v) ==
    CASE v.shape = "tuple_list_fn" -> Outcome("none", v.items, v.fn)
      [] v.shape = "tuple_list_none" -> Outcome("none", v.items, "None")
      [] v.shape = "list" /\ Len(v.items) # 2 -> Outcome("ValueError", <<>>, "None")
      [] OTHER -> Outcome("TypeError", <<>>, "None")

\* mutant: the results are collected last first
collect_reversed(res, r) == <<r>> \o res

\* decorators.py 492, 496, 529: the list comprehension appends each result
collect(res, r) == Append(res, r)

\* the objects a registered decorator can be applied to: circuits, and "function"
\* for every object that is no circuit
Interfaces == {"autograd", "torch"}
Devices == {"dev1", "dev2"}
QNodes == [kind : {"QNode"}, interface : Interfaces, device : Devices]
NotQNode == [kind |-> "function", interface |-> "none", device |-> "none"]

\* decorators.py 471, 513: isinstance(qnode, qml.QNode)
isinstance_QNode(obj) == obj.kind = "QNode"

\* mutant: the attributes are not copied from the circuit
internal_wrapper_attrs_unset(qnode) ==
    [qnode |-> qnode, interface |-> "none", device |-> "none"]

\* decorators.py 502-504, 532-534: the attributes set on internal_wrapper
internal_wrapper_attrs(qnode) ==
    [qnode |-> qnode, interface |-> qnode.interface, device |-> qnode.device]

\* decorators.py 477-478, 519-520: internal_wrapper is a function that wraps the
\* circuit; as an object to decorate it is what its class and attributes say
internal_wrapper_object(attrs) ==
    [kind |-> "function", interface |-> attrs.interface, device |-> attrs.device]

\* no circuit has been decorated
NotWrapped ==
    [bound |-> FALSE, targs |-> <<>>, target |-> NotQNode, err |-> "none",
     attrs |-> [qnode |-> NotQNode, interface |-> "none", device |-> "none"],
     outer |-> "none"]

\* qnode.qtape before the circuit was constructed
NoQtape == <<"none", 0>>

\* mutant: a circuit that has a tape keeps it
construct_kept(qtape, args) == IF qtape = NoQtape THEN <<"qtape", args>> ELSE qtape

\* decorators.py 479, 521: qnode.construct(args, kwargs) replaces qnode.qtape by
\* the tape of these arguments
construct(qtape, args) == <<"qtape", args>>

\* no call of the decorated circuit is running; qtape is the tape the circuit
\* holds and prev the one it held before its last construction
NoCall ==
    [pc |-> "idle", args |-> 0, qtape |-> NoQtape, prev |-> NoQtape, given |-> "none",
     tapes |-> <<>>, fn |-> "None", res |-> <<>>, log |-> <<>>, ret |-> "none",
     err |-> "none", raisedIn |-> "none"]

\* decorators.py 447-451: qnode_transform tests its argument
qnode_transform_check(obj) ==
    IF ~callable(obj) THEN "ValueError" ELSE "none"

InitQNode ==
    /\ qnode_transform_fn =
        [state |-> "unregistered", stt |-> FALSE, ann |-> "empty", nparams |-> 0,
         form |-> "error", auto_execute |-> FALSE, post_process |-> FALSE,
         callable |-> TRUE]
    /\ wrapped = NotWrapped
    /\ call = NoCall
    /\ ncalls = 0

\* decorators.py 447-465, 508, 537: qnode_transform(qnode_transform_fn)
QNodeTransformRegister(obj, ann, n) ==
    /\ qnode_transform_fn.state = "unregistered"
    /\ tape_fn.form = "unregistered"
    /\ extractor.mode = "none"
    /\ ~callable(obj) => (ann = "empty" /\ n = 0)
    /\ qnode_transform_fn' =
        IF qnode_transform_check(obj) # "none"
        THEN [qnode_transform_fn EXCEPT !.state = "invalid", !.callable = callable(obj)]
        ELSE LET stt == obj = "single_tape_transform"
             IN [state |-> IF qnode_transform_form(n) = "error" THEN "error"
                           ELSE "registered",
                 stt |-> stt, ann |-> ann, nparams |-> n,
                 form |-> qnode_transform_form(n),
                 auto_execute |-> auto_execute(stt, ann),
                 post_process |-> post_process(stt, ann),
                 callable |-> callable(obj)]
    /\ UNCHANGED <<wrapped, call, ncalls, qvars, jvars>>

\* decorators.py 468-506 / 511-535: the circuit is decorated, through the
\* factory called with targs or directly
QNodeDecorate(targs, target) ==
    /\ qnode_transform_fn.state = "registered"
    /\ ~wrapped.bound
    /\ wrapped.err = "none"
    /\ Len(targs) = qnode_transform_fn.nparams - 1
    /\ wrapped' =
        IF isinstance_QNode(target)
        THEN [NotWrapped EXCEPT !.bound = TRUE, !.targs = targs, !.target = target,
                                !.attrs = internal_wrapper_attrs(target)]
        ELSE [NotWrapped EXCEPT !.targs = targs, !.target = target,
                                !.err = "ValueError"]
    /\ UNCHANGED <<qnode_transform_fn, call, ncalls, qvars, jvars>>

\* decorators.py 471-475, 513-517: the registered decorator is applied to the
\* entity a decoration returned
QNodeDecorateTransformed ==
    /\ wrapped.bound
    /\ wrapped.outer = "none"
    /\ call.pc = "idle"
    /\ wrapped' =
        [wrapped EXCEPT !.outer =
            IF isinstance_QNode(internal_wrapper_object(wrapped.attrs))
            THEN "internal_wrapper" ELSE "ValueError"]
    /\ UNCHANGED <<qnode_transform_fn, call, ncalls, qvars, jvars>>

\* decorators.py 479 / 521: internal_wrapper is called and the circuit's tape is
\* constructed from the arguments
QNodeCall(args) ==
    /\ wrapped.bound
    /\ call.pc = "idle"
    /\ ncalls < MaxCalls
    /\ call' = [NoCall EXCEPT !.pc = "constructed", !.args = args,
                              !.qtape = construct(call.qtape, args),
                              !.prev = call.qtape]
    /\ UNCHANGED <<qnode_transform_fn, wrapped, ncalls, qvars, jvars>>

\* decorators.py 479, 521: the quantum function raises while qnode.construct
\* builds the tape
QNodeConstructRaise(args) ==
    /\ wrapped.bound
    /\ call.pc = "idle"
    /\ ncalls < MaxCalls
    /\ call' = [NoCall EXCEPT !.pc = "error", !.args = args, !.qtape = call.qtape,
                              !.prev = call.qtape, !.raisedIn = "fn_error",
                              !.err = propagate("fn_error")]
    /\ UNCHANGED <<qnode_transform_fn, wrapped, ncalls, qvars, jvars>>

\* decorators.py 481, 523: the transform function raises
QNodeTransformRaise ==
    /\ call.pc = "constructed"
    /\ call' = [call EXCEPT !.pc = "error", !.raisedIn = "body_error",
                            !.err = propagate("body_error")]
    /\ UNCHANGED <<qnode_transform_fn, wrapped, ncalls, qvars, jvars>>

Ended(c, e, ret) == [c EXCEPT !.pc = IF e = "none" THEN "done" ELSE "error",
                              !.err = e, !.ret = ret]

\* decorators.py 481-490 and 494-495: the branch for a transform with extra
\* parameters runs the transform
internal_wrapper_targs_transform(c, shape, n) ==
    LET T == qnode_transform_fn
    IN  IF T.auto_execute /\ ~T.post_process
        THEN LET o == normalize(TransformValue(shape, c.qtape, n))
             IN IF o.err # "none" THEN Ended([c EXCEPT !.given = "qtape"], o.err, "none")
                ELSE [c EXCEPT !.pc = "executing", !.given = "qtape",
                               !.tapes = o.tapes, !.fn = "identity"]
        ELSE IF T.auto_execute
        THEN LET o == unpack(TransformValue(shape, c.qtape, n))
             IN IF o.err # "none" THEN Ended([c EXCEPT !.given = "qnode"], o.err, "none")
                ELSE [c EXCEPT !.pc = "executing", !.given = "qnode",
                               !.tapes = o.tapes, !.fn = o.fn]
        ELSE Ended(c, "none", "None")

\* decorators.py 523-527: the branch for a one-parameter transform runs the
\* transform
internal_wrapper_transform(c, shape, n) ==
    LET T == qnode_transform_fn
    IN  IF T.stt
        THEN [c EXCEPT !.pc = "executing", !.given = "qtape",
                       !.tapes = TransformValue(shape, c.qtape, n).items,
                       !.fn = "identity"]
        ELSE LET o == unpack(TransformValue(shape, c.qtape, n))
             IN IF o.err # "none" THEN Ended([c EXCEPT !.given = "qnode"], o.err, "none")
                ELSE [c EXCEPT !.pc = "executing", !.given = "qnode",
                               !.tapes = o.tapes, !.fn = o.fn]

\* the transform function runs and its value is taken apart
QNodeTransform(shape, n) ==
    /\ call.pc = "constructed"
    /\ shape \in ShapesOf(qnode_transform_fn.stt, qnode_transform_fn.ann)
    /\ n \in Counts(shape)
    /\ call' = IF qnode_transform_fn.form = "factory"
               THEN internal_wrapper_targs_transform(call, shape, n)
               ELSE internal_wrapper_transform(call, shape, n)
    /\ UNCHANGED <<qnode_transform_fn, wrapped, ncalls, qvars, jvars>>

\* decorators.py 492, 496, 529: the next tape is executed on the circuit's device
QNodeExecute ==
    /\ call.pc = "executing"
    /\ Len(call.res) < Len(call.tapes)
    /\ LET t == call.tapes[Len(call.res) + 1]
       IN call' = [call EXCEPT !.res = collect(@, execute(t, wrapped.target.device)),
                               !.log = Append(@, <<t, wrapped.target.device>>)]
    /\ UNCHANGED <<qnode_transform_fn, wrapped, ncalls, qvars, jvars>>

\* the device fails on the next tape
QNodeExecuteRaise ==
    /\ call.pc = "executing"
    /\ Len(call.res) < Len(call.tapes)
    /\ call' = Ended([call EXCEPT !.log = Append(@, <<call.tapes[Len(call.res) + 1],
                                                     wrapped.target.device>>),
                                  !.raisedIn = "DeviceError"],
                     propagate("DeviceError"), "none")
    /\ UNCHANGED <<qnode_transform_fn, wrapped, ncalls, qvars, jvars>>

\* decorators.py 492, 497, 530: the results are returned, post-processed by fn
QNodeReturn ==
    /\ call.pc = "executing"
    /\ Len(call.res) = Len(call.tapes)
    /\ call' = IF call.fn = "None" THEN Ended(call, "TypeError", "none")
               ELSE Ended(call, "none", apply_fn(call.fn, call.res))
    /\ UNCHANGED <<qnode_transform_fn, wrapped, ncalls, qvars, jvars>>

\* the caller has the value or the error; the circuit can be called again
QNodeNext ==
    /\ call.pc \in {"done", "error"}
    /\ call' = [NoCall EXCEPT !.qtape = call.qtape]
    /\ ncalls' = ncalls + 1
    /\ UNCHANGED <<qnode_transform_fn, wrapped, qvars, jvars>>

NextQNode ==
    \/ \E obj \in Objects, ann \in Annotations, n \in ParamCounts :
            QNodeTransformRegister(obj, ann, n)
    \/ \E targs \in {<<>>} \cup {<<a>> : a \in TArgVals},
          target \in QNodes \cup {NotQNode} : QNodeDecorate(targs, target)
    \/ QNodeDecorateTransformed
    \/ \E args \in ArgVals : QNodeCall(args)
    \/ \E args \in ArgVals : QNodeConstructRaise(args)
    \/ QNodeTransformRaise
    \/ \E shape \in {"tape", "list", "tuple_tape_none", "tuple_list_none",
                     "tuple_list_fn", "other"}, n \in 0..MaxOut : QNodeTransform(shape, n)
    \/ QNodeExecute
    \/ QNodeExecuteRaise
    \/ QNodeReturn
    \/ QNodeNext

\* ======================================================= classical_jacobian
MaxArgs == 2
MaxGates == 2

\* the backend identifiers an entity can declare; "numpy" stands for every
\* identifier that classical_jacobian.py does not name
Backends == {"autograd", "torch", "jax", "tf", "numpy"}

\* the coefficients of a linear classical preprocessing: gate parameter i of
\* the circuit A is the sum over j of A[i][j] * args[j]
Coeffs == {0, 1}
Circuits ==
    UNION {[1..m -> [1..n -> Coeffs]] : m \in 1..MaxGates, n \in 1..MaxArgs}
ArgLists == UNION {[1..n -> ArgVals] : n \in 1..MaxArgs}

RECURSIVE Sum(_)
Sum(sq) == IF sq = <<>> THEN 0 ELSE Head(sq) + Sum(Tail(sq))

\* classical_jacobian.py 128-129: the circuit is constructed from the
\* arguments; the parameters of its tape, stacked
qnode_construct(A, args) ==
    [i \in 1..Len(A) |-> Sum([j \in 1..Len(args) |-> A[i][j] * args[j]])]

\* the derivative of every gate parameter of the circuit A with respect to
\* argument j, at args (classical_preprocessing is linear in each argument, so
\* the difference quotient is exact)
Column(A, args, j) ==
    LET moved == [args EXCEPT ![j] = @ + 1]
    IN  [i \in 1..Len(A) |-> qnode_construct(A, moved)[i] - qnode_construct(A, args)[i]]

\* qml.jacobian(fn)(*args): the matrix of outputs by arguments
qml_jacobian(A, args) ==
    [kind |-> "matrix",
     val |-> [i \in 1..Len(A) |-> [j \in 1..Len(args) |-> Column(A, args, j)[i]]]]

\* classical_jacobian.py 28-29: torch.autograd.functional.jacobian(fn, args)
\* with the tuple args gives a tuple with one entry per argument
torch_jacobian(A, args) ==
    [kind |-> "tuple", val |-> [j \in 1..Len(args) |-> Column(A, args, j)]]

\* classical_jacobian.py 36: jax.jacobian(fn) is called without argnums, so
\* it differentiates with respect to the first argument
jax_jacobian(A, args) == [kind |-> "vector", val |-> Column(A, args, 1)]

\* classical_jacobian.py 41-46: tape.jacobian(gate_params, args) with the
\* watched tuple args gives a tuple with one entry per argument
tf_jacobian(A, args) ==
    [kind |-> "tuple", val |-> [j \in 1..Len(args) |-> Column(A, args, j)]]

\* mutant: an identifier that is not supported is answered with the first adapter
make_jacobian_fn_default(interface) ==
    CASE interface = "torch" -> "torch"
      [] interface = "jax" -> "jax"
      [] interface = "tf" -> "tf"
      [] OTHER -> "autograd"

\* mutant: an identifier that is not supported is refused
make_jacobian_fn_eager(interface) ==
    CASE interface = "autograd" -> "autograd"
      [] interface = "torch" -> "torch"
      [] interface = "jax" -> "jax"
      [] interface = "tf" -> "tf"
      [] OTHER -> "ValueError"

\* classical_jacobian.py 21-48: the adapter _make_jacobian_fn(fn, interface)
\* returns, named by the primitive it calls; "None" is the value of a function
\* that ends without a return statement
make_jacobian_fn(interface) ==
    CASE interface = "autograd" -> "autograd"
      [] interface = "torch" -> "torch"
      [] interface = "jax" -> "jax"
      [] interface = "tf" -> "tf"
      [] OTHER -> "None"

\* jac_fn(*args) for the classical preprocessing of the circuit A
jac_fn_call(jac_fn, A, args) ==
    CASE jac_fn = "autograd" -> qml_jacobian(A, args)
      [] jac_fn = "torch" -> torch_jacobian(A, args)
      [] jac_fn = "jax" -> jax_jacobian(A, args)
      [] jac_fn = "tf" -> tf_jacobian(A, args)

\* tape.expand(depth=depth, stop_at=stop_at): at depth 0 the operations are
\* kept, deeper every operation is replaced by two that take its parameter
expand(params, depth) ==
    IF depth = 0 THEN params
    ELSE [k \in 1..(2 * Len(params)) |-> params[(k + 1) \div 2]]

Depths == {0, 1}

\* classical_jacobian.py 56: _expanded_tape before the first expansion
NoTape == [tape |-> FALSE, params |-> <<>>]

\* classical_jacobian.py 60: the tape that expanding a tape with params gives
ExpandedTape(params, depth) == [tape |-> TRUE, params |-> expand(params, depth)]

NoExtractor ==
    [mode |-> "none", interface |-> "none", jac_fn |-> "None", err |-> "none",
     A |-> <<>>, depth |-> 0, expanded_tape |-> NoTape]

NoResult ==
    [kind |-> "none", args |-> <<>>, val |-> "none", err |-> "none",
     preParams |-> <<>>, preExpanded |-> NoTape]

InitJac ==
    /\ assigned = [entity |-> "none", qnode |-> "none"]
    /\ extractor = NoExtractor
    /\ jtape = [params |-> <<>>]
    /\ jres = NoResult
    /\ jcalls = 0

\* classical_jacobian.py 64, 131: the extractor holds the adapter; an error of
\* _make_jacobian_fn would leave the constructor, which has no except clause
Built(x, jac_fn) ==
    IF jac_fn = "ValueError" THEN [x EXCEPT !.mode = "failed", !.err = "ValueError"]
    ELSE [x EXCEPT !.jac_fn = jac_fn]

\* classical_jacobian.py 74-131: classical_jacobian(qnode), for the circuit A
classical_jacobian(A, interface) ==
    /\ extractor.mode = "none"
    /\ extractor' = Built([NoExtractor EXCEPT !.mode = "direct", !.interface = interface,
                                              !.A = A],
                          make_jacobian_fn(interface))
    /\ UNCHANGED <<jtape, jres, jcalls, qvars, nvars, evars>>

\* classical_jacobian.py 53-64: expansion_jacobian(tape, depth)
expansion_jacobian(params, interface, depth) ==
    /\ extractor.mode = "none"
    /\ extractor' = Built([NoExtractor EXCEPT !.mode = "expansion",
                                              !.interface = interface, !.depth = depth],
                          make_jacobian_fn(interface))
    /\ jtape' = [params |-> params]
    /\ UNCHANGED <<jres, jcalls, qvars, nvars, evars>>

\* mutant: the tape has its own parameters again when the call ends
set_parameters_restored(tape, params) == tape

\* classical_jacobian.py 59: self.tape.set_parameters(params) writes the values
\* to the tape the extractor was built from
set_parameters(tape, params) == [tape EXCEPT !.params = params]

\* mutant: the expansion is made once and kept
classical_preprocessing_cached(x, params) ==
    IF x.expanded_tape = NoTape
    THEN [x EXCEPT !.expanded_tape = ExpandedTape(params, x.depth)]
    ELSE x

\* classical_jacobian.py 58-61: classical_preprocessing(params) of the
\* extractor x stores the expansion of the tape that holds params
classical_preprocessing(x, params) ==
    [x EXCEPT !.expanded_tape = ExpandedTape(params, x.depth)]

\* mutant: the adapter is looked up again when the entity's interface changed
jac_fn_of_rebound(x, interface) ==
    IF interface = "none" THEN x.jac_fn ELSE make_jacobian_fn(interface)

\* classical_jacobian.py 64, 71, 131: a call uses the adapter that was made
\* when the extractor was built, whatever interface the entity has by now
jac_fn_of(x, interface) == x.jac_fn

\* the record of a call that ended; for an extractor in expansion mode it
\* keeps the tape's parameters and the expanded tape as they were before the
\* call (a circuit's tape is built anew by every call)
Result(kind, args, val, e) ==
    [kind |-> kind, args |-> args, val |-> val, err |-> e,
     preParams |-> IF extractor.mode = "expansion" THEN jtape.params ELSE <<>>,
     preExpanded |-> extractor.expanded_tape]

\* the extractor can be called once more
Callable(mode) ==
    /\ extractor.mode = mode
    /\ jcalls < MaxCalls

\* classical_jacobian.py 131: the value classical_jacobian returned is called;
\* the adapter evaluates classical_preprocessing (lines 125-129) at the arguments
ClassicalJacobianCall(args) ==
    /\ Callable("direct")
    /\ jac_fn_of(extractor, assigned.entity) # "None"
    /\ Len(args) = Len(extractor.A[1])
    /\ jtape' = [params |-> qnode_construct(extractor.A, args)]
    /\ jres' = Result("value", args,
                      jac_fn_call(jac_fn_of(extractor, assigned.entity), extractor.A, args),
                      "none")
    /\ jcalls' = jcalls + 1
    /\ UNCHANGED <<extractor, qvars, nvars, evars>>

\* classical_jacobian.py 58-61, 70-71: the extractor is called with new
\* parameter values; the adapter evaluates classical_preprocessing, which
\* writes them to the tape and expands it
ExpansionJacobianCall(params) ==
    /\ Callable("expansion")
    /\ jac_fn_of(extractor, assigned.entity) # "None"
    /\ Len(params) = Len(jtape.params)
    /\ jtape' = set_parameters(jtape, params)
    /\ extractor' = classical_preprocessing(extractor, params)
    /\ jres' = Result("value", <<params>>, jac_fn_of(extractor, assigned.entity), "none")
    /\ jcalls' = jcalls + 1
    /\ UNCHANGED <<qvars, nvars, evars>>

\* classical_jacobian.py 59-60: tape.expand raises after the parameters were
\* written; the error is not caught
ExpansionJacobianCallRaise(params) ==
    /\ Callable("expansion")
    /\ jac_fn_of(extractor, assigned.entity) # "None"
    /\ Len(params) = Len(jtape.params)
    /\ jtape' = set_parameters(jtape, params)
    /\ jres' = Result("error", <<params>>, "none", propagate("ExpandError"))
    /\ jcalls' = jcalls + 1
    /\ UNCHANGED <<extractor, qvars, nvars, evars>>

\* classical_jacobian.py 71, 131: the absent adapter is called
AbsentAdapterCall(args) ==
    /\ extractor.mode \in {"direct", "expansion"}
    /\ jcalls < MaxCalls
    /\ jac_fn_of(extractor, assigned.entity) = "None"
    /\ extractor.mode = "expansion" => Len(args) = Len(jtape.params)
    /\ jres' = Result("error", IF extractor.mode = "expansion" THEN <<args>> ELSE args,
                      "none", "TypeError")
    /\ jcalls' = jcalls + 1
    /\ UNCHANGED <<extractor, jtape, qvars, nvars, evars>>

\* the entities an extractor can still be built for: one is built per run
Unbuilt(entities) ==
    IF /\ extractor.mode = "none"
       /\ tape_fn.form = "unregistered"
       /\ qnode_transform_fn.state = "unregistered"
    THEN entities ELSE {}

NextJac ==
    \/ \E A \in Unbuilt(Circuits), interface \in Backends :
            classical_jacobian(A, interface)
    \/ \E params \in Unbuilt(ArgLists), interface \in Backends, depth \in Depths :
            expansion_jacobian(params, interface, depth)
    \/ \E args \in ArgLists : ClassicalJacobianCall(args)
    \/ \E params \in ArgLists : ExpansionJacobianCall(params)
    \/ \E params \in ArgLists : ExpansionJacobianCallRaise(params)
    \/ \E args \in ArgLists : AbsentAdapterCall(args)

\* ------------------------------------------------ entity.interface = ...
\* user code assigns another interface to the entity an extractor was built
\* for (tests/interfaces/test_batch_torch_qnode.py 91: circuit.interface = ...)
AssignEntityInterface(interface) ==
    /\ extractor.mode \in {"direct", "expansion"}
    /\ assigned.entity = "none"
    /\ interface # extractor.interface
    /\ assigned' = [assigned EXCEPT !.entity = interface]
    /\ UNCHANGED <<circuit, extractor, jtape, jres, jcalls, qvars, nvars>>

\* user code assigns another interface to the circuit that was decorated
AssignQNodeInterface(interface) ==
    /\ wrapped.bound
    /\ call.pc = "idle"
    /\ assigned.qnode = "none"
    /\ interface # wrapped.target.interface
    /\ assigned' = [assigned EXCEPT !.qnode = interface]
    /\ UNCHANGED <<circuit, extractor, jtape, jres, jcalls, qvars, nvars>>

\* the circuits with one gate parameter: which adapter a call uses does not
\* depend on the number of gates
OneGateCircuits == {A \in Circuits : Len(A) = 1}

\* the extractors and the decorated circuits, with entities whose interface
\* is assigned anew
NextInterface ==
    \/ NextQNode
    \/ \E A \in Unbuilt(OneGateCircuits), interface \in Backends :
            classical_jacobian(A, interface)
    \/ \E params \in Unbuilt(ArgLists), interface \in Backends, depth \in Depths :
            expansion_jacobian(params, interface, depth)
    \/ \E args \in ArgLists : ClassicalJacobianCall(args)
    \/ \E params \in ArgLists : ExpansionJacobianCall(params)
    \/ \E params \in ArgLists : ExpansionJacobianCallRaise(params)
    \/ \E args \in ArgLists : AbsentAdapterCall(args)
    \/ \E interface \in Backends : AssignEntityInterface(interface)
    \/ \E interface \in Interfaces : AssignQNodeInterface(interface)

\* ------------------------------------------------------- a circuit entity
\* the shot settings of a device: 0 stands for shots=None (analytic), and
\* NoOverride for a call without the shots keyword
ShotCounts == {0, 100}

NoOverride == 0 - 1

\* which arguments of a call require gradients
GradFlags == UNION {[1..n -> BOOLEAN] : n \in 1..MaxArgs}

NoRan ==
    [called |-> FALSE, grads |-> <<>>, override |-> NoOverride, shots |-> 0,
     method |-> "none", removed |-> FALSE, after_override |-> FALSE]

NoCircuit ==
    [built |-> FALSE, A |-> <<>>, shots |-> 0, created_shots |-> 0,
     gradient_fn |-> "none", trainable_params |-> {}, ran |-> NoRan]

InitCircuit == circuit = NoCircuit

\* the gradient method the circuit configures for a shot setting: backprop
\* needs an analytic device, parameter-shift works with samples
best_method(shots) == IF shots = 0 THEN "backprop" ELSE "param_shift"

\* mutant: a position that was trainable stays trainable
update_trainable_accumulated(c, grads) ==
    [c EXCEPT !.trainable_params =
        @ \cup {i - 1 : i \in {k \in 1..Len(c.A) :
                        \E j \in 1..Len(grads) : c.A[k][j] = 1 /\ grads[j]}}]

\* the construction of the tape in a call: the trainable parameters are the
\* gate parameters, counted from 0, computed from an argument that requires
\* gradients in this call
update_trainable(c, grads) ==
    [c EXCEPT !.trainable_params =
        {i - 1 : i \in {k \in 1..Len(c.A) :
                        \E j \in 1..Len(grads) : c.A[k][j] = 1 /\ grads[j]}}]

\* the shots a call runs with
effective_shots(c, override) == IF override = NoOverride THEN c.shots ELSE override

\* mutant: the device keeps the shots of the call
restored_shots_kept(c, override) == effective_shots(c, override)

\* the device's shots when the call has ended: what they were before it
restored_shots(c, override) == c.shots

\* the circuits still to create: one is created per run
Uncreated(entities) == IF circuit.built THEN {} ELSE entities

\* a circuit with the dependence matrix A is created on a device with shots
CircuitCreate(A, shots) ==
    /\ ~circuit.built
    /\ circuit' = [NoCircuit EXCEPT !.built = TRUE, !.A = A, !.shots = shots,
                                    !.created_shots = shots,
                                    !.gradient_fn = best_method(shots)]
    /\ UNCHANGED <<assigned, extractor, jtape, jres, jcalls, qvars, nvars>>

\* circuit(*args) or circuit(*args, shots=override): the tape is constructed,
\* executed with the shots of this call and the gradient method that fits
\* them, and the device and the circuit are set back
CircuitCall(grads, override) ==
    /\ circuit.built
    /\ Len(grads) = Len(circuit.A[1])
    /\ LET after == update_trainable(circuit, grads)
           shots == restored_shots(circuit, override)
       IN  circuit' =
             [after EXCEPT
                !.shots = shots,
                !.gradient_fn = best_method(shots),
                !.ran = [called |-> TRUE, grads |-> grads, override |-> override,
                         shots |-> effective_shots(circuit, override),
                         method |-> best_method(effective_shots(circuit, override)),
                         removed |-> circuit.trainable_params \ after.trainable_params # {},
                         after_override |-> circuit.ran.override
                                                \notin {NoOverride, circuit.shots}]]
    /\ UNCHANGED <<assigned, extractor, jtape, jres, jcalls, qvars, nvars>>

NextCircuit ==
    \/ \E A \in Uncreated(Circuits), shots \in ShotCounts : CircuitCreate(A, shots)
    \/ \E grads \in GradFlags, override \in ShotCounts \cup {NoOverride} :
            CircuitCall(grads, override)

Init == InitQueuing /\ InitQNode /\ InitJac /\ InitCircuit

\* -------------------------------------------------------------------- Next
Next ==
    \/ \E cls \in TapeClasses : UserTapeEnter(cls)
    \/ UserTapeExit
    \/ UserInstantiate
    \/ Catch
    \/ MakeTapeCall
    \/ \E k \in ObjKinds : FnInstantiate(k)
    \/ MakeTapeReturn
    \/ MakeTapeRaise
    \/ MakeTapeUnwind
    \/ \E inp \in Tapes : TransformCall(inp)
    \/ BodyRequeue
    \/ BodyInstantiate
    \/ BodySkip
    \/ TransformReturn
    \/ TransformRaise
    \/ \E tape_transform \in Objects, n \in ParamCounts :
            QfuncTransformRegister(tape_transform, n)
    \/ \E targs \in {<<>>} \cup {<<a>> : a \in TArgVals}, fn \in {"function", "object"} :
            QfuncDecorate(targs, fn)
    \/ QfuncCall
    \/ InternalWrapperTransform
    \/ InternalWrapperReturn
    \/ InternalWrapperUnwind

Spec == Init /\ [][Next]_vars

\* the decorated circuit alone
SpecQNode == Init /\ [][NextQNode]_vars

\* the registrars together: a run registers with one of them
NextAll == Next \/ NextQNode

SpecAll == Init /\ [][NextAll]_vars

\* the wrappers of decorators.py and the extractor that expands a tape
NextCore ==
    \/ Next
    \/ NextQNode
    \/ \E params \in Unbuilt(ArgLists), interface \in Backends, depth \in Depths :
            expansion_jacobian(params, interface, depth)
    \/ \E params \in ArgLists : ExpansionJacobianCall(params)
    \/ \E params \in ArgLists : ExpansionJacobianCallRaise(params)
    \/ \E args \in ArgLists : AbsentAdapterCall(args)

SpecCore == Init /\ [][NextCore]_vars

\* the extractors and the decorated circuits under reassigned interfaces
SpecInterface == Init /\ [][NextInterface]_vars

\* a circuit entity that is called directly
SpecCircuit == Init /\ [][NextCircuit]_vars

\* the classical-Jacobian extractors alone
SpecJac == Init /\ [][NextJac]_vars

\* ================================================================== claims
\* the tapes that were recording, or switched off by stop_recording(), when
\* the call l began
Enclosing(l) ==
    Range(l.preStack) \cup UNION {Range(l.preSaved[i]) : i \in 1..Len(l.preSaved)}

\* the queue q after objs were appended to it one by one
Forwarded(q, objs) == q \o SelectSeq(objs, LAMBDA o : o \notin Range(q))

\* C1: make_tape(fn)(*args) returns a new tape that holds exactly the objects
\* that were queued while fn ran; neither they nor the new tape are added to a
\* tape that was recording before the call: every enclosing queue is unchanged.
MakeTapeIsolation ==
    (last.kind = "make_tape" /\ last.raised = "none") =>
        /\ last.tape \notin Enclosing(last)
        /\ queue[last.tape] = last.log
        /\ \A t \in Tapes : TapeObj(last.tape) \notin Range(queue[t])
        /\ \A t \in Tapes \ {last.tape} : Range(queue[t]) \cap Range(last.direct) = {}
        /\ \A t \in Enclosing(last) : queue[t] = last.pre[t]

MakeTapeIsolationWitness ==
    /\ last.kind = "make_tape"
    /\ last.raised = "none"
    /\ last.outer # 0
    /\ last.pre[last.outer] # <<>>
    /\ last.direct # <<>>

\* C2: when fn raises inside make_tape(fn)(*args), the error that reaches the
\* caller is fn's, the context stack is what it was before the call, no
\* stop_recording() scope of the call is still open, and the enclosing queues
\* are what they were.
MakeTapeErrorRestores ==
    (last.kind = "make_tape" /\ last.raised # "none") =>
        /\ active_contexts = last.preStack
        /\ saved = last.preSaved
        /\ \A t \in Enclosing(last) : queue[t] = last.pre[t]
        /\ last.raised = last.raisedIn
        /\ err = last.raisedIn

MakeTapeErrorRestoresWitness ==
    /\ last.kind = "make_tape"
    /\ last.raised = "fn_error"
    /\ last.outer # 0
    /\ last.pre[last.outer] # <<>>
    /\ last.direct # <<>>

\* C3 as stated: after a single_tape_transform call returns, no object its body
\* queued is in a tape that was recording before the call.
TransformIsolation ==
    (last.kind = "transform" /\ last.raised = "none") =>
        \A t \in Range(last.preStack) : Range(queue[t]) \cap Range(last.log) = {}

\* C3 as amended: after a single_tape_transform call returns, the tape that
\* was recording before the call does not hold the transform's tape, and its
\* queue is its queue before the call with the objects the body queued
\* appended in the body's order; the other enclosing queues are unchanged.
TransformForwards ==
    (last.kind = "transform" /\ last.raised = "none" /\ last.outer # 0) =>
        /\ queue[last.outer] = Forwarded(last.pre[last.outer], last.log)
        /\ TapeObj(last.tape) \notin Range(queue[last.outer])
        /\ \A t \in Enclosing(last) \ {last.outer} : queue[t] = last.pre[t]

TransformForwardsWitness ==
    /\ last.kind = "transform"
    /\ last.raised = "none"
    /\ last.outer # 0
    /\ last.pre[last.outer] # <<>>
    /\ last.log # <<>>

TransformUndisturbed ==
    (last.kind = "transform" /\ last.raised = "none") =>
        /\ last.tape # last.inp
        /\ queue[last.tape] = last.log
        /\ active_contexts = last.preStack
        /\ \A t \in Enclosing(last) : queue[t] = last.pre[t]

\* C5 as amended: a single_tape_transform call returns a tape other than its
\* input whose operations and measurements are the objects the body queued, in
\* the body's order; the call leaves the context stack as it was and the
\* returned tape is queued in no tape (the body's objects are also appended to
\* the tape that was recording, see C3).
TransformOutput ==
    (last.kind = "transform" /\ last.raised = "none") =>
        /\ last.tape # last.inp
        /\ queue[last.tape] = last.log
        /\ operations(queue[last.tape]) = operations(last.log)
        /\ measurements(queue[last.tape]) = measurements(last.log)
        /\ active_contexts = last.preStack
        /\ saved = last.preSaved
        /\ \A t \in Tapes : TapeObj(last.tape) \notin Range(queue[t])

TransformOutputWitness ==
    /\ last.kind = "transform"
    /\ last.raised = "none"
    /\ last.outer # 0
    /\ operations(last.log) # <<>>
    /\ measurements(last.log) # <<>>

\* C6: the tape make_tape builds from a transformed quantum function t(f)
\* holds exactly the sequence the transform's body queued when it ran on the
\* tape of f: re-queued operations and replacements, in the body's order.
QfuncComposition ==
    (/\ last.kind = "make_tape"
     /\ last.raised = "none"
     /\ last.direct = <<>>
     /\ Len(last.bodies) = 1) =>
        /\ queue[last.tape] = last.bodies[1]
        /\ operations(queue[last.tape]) = operations(last.bodies[1])

QfuncCompositionWitness ==
    /\ last.kind = "make_tape"
    /\ last.raised = "none"
    /\ last.direct = <<>>
    /\ Len(last.bodies) = 1
    /\ Len(last.bodies[1]) = 2
    /\ \E t \in Tapes \ {last.tape} : \E i, j \in 1..2 :
            /\ last.bodies[1][i] \in Range(queue[t])
            /\ last.bodies[1][j] \notin Range(queue[t])

\* C7: qfunc_transform yields a decorator for a one-parameter transform and a
\* factory for a transform with more parameters; every call of the decorated
\* function applies the tape transform once, with the extra arguments the
\* factory was given, and returns the measurements of the output tape.
QfuncDispatch ==
    /\ tape_fn.form = "factory" => tape_fn.nparams > 1
    /\ tape_fn.form = "decorator" => tape_fn.nparams = 1
    /\ tape_fn.nparams >= 1 => tape_fn.form \in {"factory", "decorator"}
    /\ decorated.bound => Len(decorated.targs) = tape_fn.nparams - 1
    /\ (last.kind = "qfunc" /\ last.raised = "none") =>
        /\ last.applied = <<decorated.targs>>
        /\ Len(last.bodies) = 1
        /\ last.ret = measurements(last.bodies[1])

QfuncDispatchWitness ==
    /\ last.kind = "qfunc"
    /\ last.raised = "none"
    /\ tape_fn.form = "factory"
    /\ last.applied = <<(<<7>>)>>
    /\ last.ret # <<>>

\* C8: qnode_transform classifies the transform at registration: a
\* single_tape_transform or an annotation of a tape, a list of tapes or
\* (tape(s), None) is executed automatically without post-processing; no
\* annotation or (list of tapes, callable) is executed and post-processed; any
\* other annotation is not executed. The classification is that in every later
\* state, whatever calls were made.
QNodeClassification ==
    LET T == qnode_transform_fn
    IN  T.state = "registered" =>
        /\ (T.stt \/ T.ann \in {"QuantumTape", "List[QuantumTape]",
                                "Tuple[QuantumTape, None]",
                                "Tuple[List[QuantumTape], None]"})
                => (T.auto_execute /\ ~T.post_process)
        /\ (~T.stt /\ T.ann \in {"empty", "Tuple[List[QuantumTape], Callable]"})
                => (T.auto_execute /\ T.post_process)
        /\ (~T.stt /\ T.ann = "float") => (~T.auto_execute /\ ~T.post_process)

QNodeClassificationWitness ==
    /\ qnode_transform_fn.state = "registered"
    /\ ~qnode_transform_fn.stt
    /\ qnode_transform_fn.ann = "empty"
    /\ qnode_transform_fn.auto_execute
    /\ qnode_transform_fn.post_process
    /\ ncalls >= 2

\* C9: a call of a circuit whose transform is classified auto-execute without
\* post-processing runs the transform on the circuit's tape, executes every
\* tape it returned on the circuit's device and returns the results in tape
\* order, without an error of its own.
AutoExecuteNoProcessing ==
    LET T == qnode_transform_fn
    IN  (call.pc \in {"done", "error"} /\ T.auto_execute /\ ~T.post_process) =>
        /\ call.err \in {"none", "DeviceError"}
        /\ call.given = "qtape"
        /\ call.pc = "done" =>
            /\ call.log = [j \in 1..Len(call.tapes) |-> <<call.tapes[j], wrapped.target.device>>]
            /\ call.ret = [j \in 1..Len(call.tapes) |->
                                execute(call.tapes[j], wrapped.target.device)]

\* C10: a call of a circuit whose transform is classified auto-execute with
\* post-processing runs the transform on the circuit itself, executes every
\* tape it returned once, in list order, on the circuit's device, and returns
\* the processing function applied to the results in that order (the quantum
\* function and the transform function do not raise).
AutoExecutePostProcess ==
    LET T == qnode_transform_fn
    IN  (/\ call.pc \in {"done", "error"}
         /\ call.raisedIn \notin {"fn_error", "body_error"}
         /\ T.auto_execute /\ T.post_process) =>
        /\ call.err \in {"none", "DeviceError"}
        /\ call.given = "qnode"
        /\ \A j \in 1..Len(call.tapes) : call.tapes[j] = <<call.qtape, j>>
        /\ call.pc = "done" =>
            /\ call.log = [j \in 1..Len(call.tapes) |-> <<call.tapes[j], wrapped.target.device>>]
            /\ call.ret = <<"processing_fn",
                            [j \in 1..Len(call.tapes) |->
                                execute(call.tapes[j], wrapped.target.device)]>>

AutoExecutePostProcessWitness ==
    /\ call.pc = "done"
    /\ qnode_transform_fn.auto_execute
    /\ qnode_transform_fn.post_process
    /\ qnode_transform_fn.form = "factory"
    /\ Len(call.tapes) = 2
    /\ Len(call.log) = 2

\* C11: the branch for a one-parameter transform follows the same policy as
\* the branch for a transform with extra parameters: the transform is given
\* the circuit's tape when post-process is false and the circuit when it is
\* true, tapes are executed only when auto-execute is true, and a processing
\* function is applied only when post-process is true.
BranchesAgree ==
    LET T == qnode_transform_fn
    IN  (T.form \in {"factory", "decorator"} /\ call.pc \notin {"idle", "constructed"}) =>
        /\ call.given # "none" =>
            /\ T.auto_execute
            /\ call.given = IF T.post_process THEN "qnode" ELSE "qtape"
        /\ call.log # <<>> => T.auto_execute
        /\ (call.pc = "done" /\ call.ret # "None" /\ call.fn # "identity")
                => T.post_process

\* C12: a call of a circuit whose transform is not classified auto-execute
\* executes no tape on the device, whatever the number of parameters of the
\* transform.
NoAutoExecuteNoExecution ==
    (qnode_transform_fn.state = "registered" /\ ~qnode_transform_fn.auto_execute)
        => call.log = <<>>

\* C13: applying a registered decorator to the entity that a decoration
\* returned is accepted.
TransformsCompose == wrapped.outer # "ValueError"

\* C14: the entity a decoration returns has the attributes qnode, interface
\* and device of the circuit it was applied to, in both branches.
QNodeAttributes ==
    wrapped.bound =>
        /\ wrapped.attrs.qnode = wrapped.target
        /\ wrapped.attrs.interface = wrapped.target.interface
        /\ wrapped.attrs.device = wrapped.target.device
        /\ wrapped.target \in QNodes

QNodeAttributesWitness ==
    /\ wrapped.bound
    /\ qnode_transform_fn.form = "factory"
    /\ wrapped.targs # <<>>
    /\ wrapped.target.interface = "torch"
    /\ wrapped.target.device = "dev2"
    /\ call.pc = "done"

\* the backend identifiers classical_jacobian.py names
Supported == {"autograd", "torch", "jax", "tf"}

\* C15: for each of the four supported identifiers the adapter factory returns
\* a callable adapter that uses that backend's own Jacobian primitive; for
\* every other identifier it returns None and does not raise.
AdapterSelection ==
    extractor.mode # "none" =>
        /\ extractor.err = "none"
        /\ extractor.mode \in {"direct", "expansion"}
        /\ extractor.interface \in Supported => extractor.jac_fn = extractor.interface
        /\ extractor.interface \notin Supported => extractor.jac_fn = "None"
        /\ \A i \in Supported : make_jacobian_fn(i) \notin {"None", "ValueError"}
        /\ \A i, k \in Supported : i # k => make_jacobian_fn(i) # make_jacobian_fn(k)

AdapterSelectionWitness ==
    /\ extractor.mode = "direct"
    /\ extractor.interface = "numpy"
    /\ extractor.jac_fn = "None"
    /\ jcalls = 1

\* C16: building an extractor for an entity with an unsupported identifier
\* does not raise; every call of it fails, and in expansion mode the failed
\* call leaves the tape's parameters and the cached expanded tape as they were.
DeferredFailure ==
    (extractor.mode # "none" /\ extractor.interface \notin Supported) =>
        /\ extractor.mode \in {"direct", "expansion"}
        /\ extractor.err = "none"
        /\ jcalls = 0 => jres = NoResult
        /\ jcalls > 0 =>
            /\ jres.kind = "error"
            /\ jres.err = "TypeError"
            /\ extractor.mode = "expansion" => jtape.params = jres.preParams
            /\ extractor.mode = "direct" => jtape.params = <<>>
            /\ extractor.expanded_tape = jres.preExpanded

DeferredFailureWitness ==
    /\ extractor.mode = "expansion"
    /\ extractor.interface = "numpy"
    /\ Len(jtape.params) = 2
    /\ jres.kind = "error"
    /\ jcalls = 2

\* C17 as stated: after any sequence of calls of an expansion extractor its
\* expanded_tape is the expansion of the tape with the values of the most
\* recent call.
ExpansionCachesLatest ==
    (extractor.mode = "expansion" /\ jcalls > 0) =>
        extractor.expanded_tape = ExpandedTape(jres.args[1], extractor.depth)

\* C17, amended: after a call of an expansion extractor that returned, its
\* expanded_tape is the expansion of the tape with the values of that call
\* and the tape holds those values; a call that raised leaves expanded_tape
\* as it was before the call.
ExpansionCachesLatestReturned ==
    extractor.mode = "expansion" =>
        /\ jres.kind = "value" =>
            /\ extractor.expanded_tape =
                    ExpandedTape(jres.args[1], extractor.depth)
            /\ jtape.params = jres.args[1]
        /\ jres.kind = "error" => extractor.expanded_tape = jres.preExpanded

ExpansionCachesLatestReturnedWitness ==
    /\ extractor.mode = "expansion"
    /\ extractor.depth = 1
    /\ jcalls = 2
    /\ jres.kind = "value"
    /\ jres.preExpanded # NoTape
    /\ jres.preExpanded # extractor.expanded_tape

\* C18: for a circuit with n scalar arguments and m gate parameters the value
\* of the classical-Jacobian function has m rows and n columns, and entry
\* [i][j] is the derivative of gate parameter i with respect to argument j,
\* for every supported backend.
JacobianShape ==
    (extractor.mode = "direct" /\ jres.kind = "value") =>
        LET A == extractor.A
        IN  /\ jres.val.kind = "matrix"
            /\ Len(jres.val.val) = Len(A)
            /\ \A i \in 1..Len(A) :
                /\ Len(jres.val.val[i]) = Len(A[i])
                /\ \A j \in 1..Len(A[i]) : jres.val.val[i][j] = A[i][j]

\* no tape has been built, no wrapper of this module is running or has run,
\* and no circuit call has started
NothingRan ==
    /\ \A t \in Tapes : tcls[t] = "none"
    /\ frames = <<>>
    /\ last = NoLast
    /\ call = NoCall
    /\ ncalls = 0

\* C19: registering an object that cannot be called with single_tape_transform,
\* qfunc_transform or qnode_transform raises at registration, and so does
\* decorating a target that cannot be called (qfunc) or is no circuit (qnode);
\* nothing has run at that point and no decorated object exists that could
\* raise the error later.
ConfigErrorsFailFast ==
    /\ ~tape_fn.callable =>
        /\ tape_fn.form = "invalid"
        /\ err \in {"ValueError", "caught"}
    /\ tape_fn.form = "invalid" => (~decorated.bound /\ NothingRan)
    /\ ~decorated.callable =>
        /\ ~decorated.bound
        /\ err \in {"ValueError", "caught"}
        /\ NothingRan
    /\ ~qnode_transform_fn.callable =>
        /\ qnode_transform_fn.state = "invalid"
        /\ ~wrapped.bound
        /\ NothingRan
    /\ (wrapped.target \notin QNodes /\ wrapped # NotWrapped) =>
        /\ wrapped.err = "ValueError"
        /\ ~wrapped.bound
        /\ NothingRan

ConfigErrorsFailFastWitness ==
    /\ tape_fn.form = "factory"
    /\ ~decorated.callable
    /\ decorated.targs # <<>>
    /\ err = "caught"

\* C20: when a wrapper of this module returns or raises, nested in others or
\* not, the context stack and the stacks put aside by stop_recording() are what
\* they were when it was called; a call of a decorated circuit leaves them as
\* they were too.
PushPopBalance ==
    /\ last.kind # "none" =>
        /\ active_contexts = last.preStack
        /\ saved = last.preSaved
    /\ Len(frames) = 0 => saved = <<>>
    /\ call.pc # "idle" => (active_contexts = <<>> /\ saved = <<>>)

PushPopBalanceWitness ==
    /\ last.kind = "transform"
    /\ last.raised # "none"
    /\ Len(frames) > 0
    /\ Len(last.preStack) > 0

\* C22: when the transform returned an empty list of tapes with a processing
\* function, the call executes nothing on the device and returns the
\* processing function applied to the empty list.
EmptyTapes ==
    (call.pc \in {"executing", "done", "error"} /\ call.given # "none"
        /\ call.fn = "processing_fn" /\ call.tapes = <<>>) =>
        /\ call.log = <<>>
        /\ call.res = <<>>
        /\ call.pc # "error"
        /\ call.pc = "done" => call.ret = <<"processing_fn", <<>>>>

EmptyTapesWitness ==
    /\ call.pc = "done"
    /\ call.given = "qnode"
    /\ call.fn = "processing_fn"
    /\ call.tapes = <<>>
    /\ qnode_transform_fn.form = "decorator"

\* C27: in every call of a decorated circuit the circuit's tape is built from
\* the call's arguments before the transform runs, the transform runs before
\* any tape is executed and works on the tape of this call, and the value is
\* returned, post-processed or not, after every tape was executed; when the
\* quantum function raises, neither the transform nor an execution follows.
InvocationOrder ==
    /\ call.raisedIn = "fn_error" =>
            (call.given = "none" /\ call.tapes = <<>> /\ call.log = <<>>)
    /\ (call.pc # "idle" /\ call.raisedIn # "fn_error") =>
        /\ call.qtape = <<"qtape", call.args>>
        /\ \A j \in 1..Len(call.tapes) : call.tapes[j][1] = <<"qtape", call.args>>
        /\ call.pc = "constructed" =>
                (call.given = "none" /\ call.tapes = <<>> /\ call.log = <<>>)
        /\ call.log # <<>> => call.given # "none"
        /\ (call.pc = "done" /\ call.given # "none") =>
                (Len(call.log) = Len(call.tapes) /\ Len(call.res) = Len(call.tapes))

InvocationOrderWitness ==
    /\ call.pc = "done"
    /\ call.prev # NoQtape
    /\ call.prev # call.qtape
    /\ call.fn = "processing_fn"
    /\ Len(call.log) = 2

ReturnedTapeClass ==
    /\ (last.kind = "transform" /\ last.raised = "none") =>
            /\ tcls[last.tape] = tcls[last.inp]
            /\ tcls[last.tape] \in TapeClasses
            /\ ~nonq[last.tape]
    /\ (last.kind = "make_tape" /\ last.raised = "none") =>
            /\ tcls[last.tape] =
                    IF last.outer # 0 THEN tcls[last.outer] ELSE "QuantumTape"
            /\ nonq[last.tape] = (last.outer # 0 /\ nonq[last.outer])

ReturnedTapeClassWitness ==
    /\ last.kind = "transform"
    /\ last.raised = "none"
    /\ tcls[last.inp] = "JacobianTape"
    /\ tcls[last.tape] = "JacobianTape"
    /\ last.log # <<>>

\* C28 as stated: after a call of an expansion extractor the tape it was built
\* from holds the values of the most recent call.
ParametersOverwrittenByCall ==
    (extractor.mode = "expansion" /\ jcalls > 0) => jtape.params = jres.args[1]

\* C28, amended: before the first call of an expansion extractor its expanded
\* tape is absent; a call that reaches the classical preprocessing, whether it
\* returns or the expansion raises, leaves the call's values in the tape the
\* extractor was built from; a call of an extractor without adapter raises
\* before that and leaves the tape's parameters as they were.
ParametersOverwritten ==
    extractor.mode = "expansion" =>
        /\ jcalls = 0 => (extractor.expanded_tape = NoTape /\ jres = NoResult)
        /\ (jcalls > 0 /\ jres.err # "TypeError") => jtape.params = jres.args[1]
        /\ (jcalls > 0 /\ jres.err = "TypeError") => jtape.params = jres.preParams

ParametersOverwrittenWitness ==
    /\ extractor.mode = "expansion"
    /\ jcalls = 2
    /\ jres.kind = "value"
    /\ jres.preParams # jres.args[1]
    /\ jtape.params = jres.args[1]

\* C30: registering a callable that declares no parameter with qfunc_transform
\* or qnode_transform ends in an error at the registration: no decorator
\* exists afterwards, nothing is decorated and nothing runs.
ZeroParameters ==
    /\ (tape_fn.form \notin {"unregistered", "invalid"} /\ tape_fn.nparams = 0) =>
        /\ tape_fn.form = "error"
        /\ err \in {"UnboundLocalError", "caught"}
        /\ ~decorated.bound
        /\ NothingRan
    /\ (qnode_transform_fn.state \notin {"unregistered", "invalid"}
            /\ qnode_transform_fn.nparams = 0) =>
        /\ qnode_transform_fn.state = "error"
        /\ qnode_transform_fn.form = "error"
        /\ wrapped = NotWrapped
        /\ NothingRan

ZeroParametersWitness ==
    /\ tape_fn.callable
    /\ tape_fn.form = "error"
    /\ tape_fn.nparams = 0
    /\ err = "UnboundLocalError"

\* C29: the adapter of an extractor is the one selected for the interface the
\* entity had when the extractor was built: every later call uses it, also
\* after another interface was assigned to the entity; the interface attribute
\* of a decorated circuit is the one the circuit had when it was decorated.
AdapterFixed ==
    /\ extractor.mode \in {"direct", "expansion"} =>
        /\ extractor.jac_fn = make_jacobian_fn(extractor.interface)
        /\ assigned.entity # extractor.interface
        /\ jres.kind = "value" =>
            /\ extractor.interface \in Supported
            /\ extractor.mode = "direct" =>
                    jres.val = jac_fn_call(make_jacobian_fn(extractor.interface),
                                           extractor.A, jres.args)
            /\ extractor.mode = "expansion" =>
                    jres.val = make_jacobian_fn(extractor.interface)
        /\ jres.err = "TypeError" => extractor.interface \notin Supported
    /\ wrapped.bound =>
        /\ wrapped.attrs.interface = wrapped.target.interface
        /\ wrapped.attrs.interface # assigned.qnode

AdapterFixedWitness ==
    /\ extractor.mode = "direct"
    /\ extractor.interface = "autograd"
    /\ assigned.entity = "torch"
    /\ jres.kind = "value"
    /\ jres.val.kind = "matrix"
    /\ jcalls = 2

ErrorsPropagate ==
    /\ (last.kind # "none" /\ last.raisedIn # "none") =>
        /\ last.raised = last.raisedIn
        /\ err = last.raisedIn
        /\ last.ret = <<>>
    /\ call.raisedIn # "none" =>
        /\ call.pc = "error"
        /\ call.err = call.raisedIn
        /\ call.ret = "none"
    /\ (extractor.mode = "expansion" /\ extractor.jac_fn # "None"
            /\ jres.kind = "error") =>
        /\ jres.err = "ExpandError"
        /\ jres.val = "none"

ErrorsPropagateWitness ==
    /\ frames = <<>>
    /\ last.kind = "make_tape"
    /\ last.raisedIn = "body_error"
    /\ last.log # <<>>
    /\ err = "body_error"

====
